---- MODULE Spec2Model ----
(***************************************************************************)
(* The query path of the index gateway client                              *)
(* (pkg/storage/stores/shipper/gateway_client.go): QueryPages splits a     *)
(* batch of queries into sub-batches, doQueries dispatches one sub-batch,  *)
(* ringModeDoQueries walks the shuffled replica set and clientDoQueries    *)
(* consumes one QueryIndex stream.                                         *)
(*                                                                         *)
(* One behaviour of the model is one QueryPages call.  A query of the      *)
(* batch is named by its index; the gateways, the ring, the pool, the      *)
(* tenant context and the caller's callback are the environment, and what  *)
(* they answer is chosen at the step that asks them.                       *)
(***************************************************************************)
EXTENDS Integers, Sequences, FiniteSets, TLC

\* gateway_client.go:33-36
maxQueriesPerGrpc == 100
\* (mutant) one worker more than the limit
OneWorkerMore == 10 + 1
maxConcurrentGrpcCalls == 10

(***************************************************************************)
(* Bounds of the model.                                                    *)
(***************************************************************************)
\* row groups one doQueries call receives at most, over all its streams, when
\* the batch is one sub-batch
MaxRecv == 2
\* addresses a resolved replica set holds at most, when the batch is one sub-batch
MaxReplicas == 3
\* a fan-out of more jobs than this runs against gateways that answer every
\* call with an empty stream, in simple mode
MaxDetailJobs == 3
\* addresses a resolved replica set holds at most, and row groups one doQueries
\* call receives at most, when the call is made twice
MaxTwiceReplicas == 2
MaxTwiceRecv == 2
\* rows a row group holds at most, and calls of Next made on one iterator
MaxRows == 2
MaxNextCalls == 4
\* the batch sizes a call is made with
BatchSizes == {0, 2, 100, 101, 200, 250, 1001}

VARIABLES
    mode,       \* s.cfg.Mode: "simple" or "ring"
    size,       \* len(queries) of the QueryPages call
    same,       \* whether the last two queries of the batch are equal queries
    tenantOK,   \* whether ctx carries a tenant ID
    qp,         \* where QueryPages is: "call", "direct", "fanout", "returned"
    result,     \* the error QueryPages returned ("nil": none)
    pool,       \* the fan-out: ForEachJob's jobs, index counter, workers and join
    job,        \* per job: the frame of its doQueries call and what it did
    run,        \* which QueryPages call this is: the 1st, or the same call made again
    first,      \* what the 1st call did and returned, once it is made again
    iter,       \* a grpcIter: its row group (Rows) and its cursor (i)
    nexts,      \* what the calls of Next on iter returned, in order
    read        \* what the last RangeValue or Value call on iter returned, since
                \* the last Next

vars == <<mode, size, same, tenantOK, qp, result, pool, job, run, first,
          iter, nexts, read>>

iterVars == <<iter, nexts, read>>

cfgVars == <<mode, size, same, tenantOK, run, first, iter, nexts, read>>

Min(a, b) == IF a < b THEN a ELSE b

(***************************************************************************)
(* The bounds by the shape of the call.                                    *)
(***************************************************************************)
Single == size <= maxQueriesPerGrpc
Wide == size > MaxDetailJobs * maxQueriesPerGrpc
RecvCap == IF Single THEN MaxRecv ELSE IF Wide THEN 0 ELSE 1
ReplicaCap == IF Single THEN MaxReplicas ELSE 1
\* whether a gateway, the ring or the pool may fail a call
Faulty == ~Wide

(***************************************************************************)
(* Queries and their keys.                                                 *)
(***************************************************************************)
\* the query at index i of the batch (equal queries are equal values)
Query(i) == IF same /\ i = size - 1 /\ i > 0 THEN i - 1 ELSE i

\* shipper_util.QueryKey: a key per query, equal only for equal queries
QueryKey(q) == <<"QueryKey", q>>

\* a key no query of the batch has
UnknownKey == <<"QueryKey", -1>>

\* queries[lo:hi] of the batch, as its set of indexes
SubBatch(lo, hi) == lo..(hi - 1)

\* (mutant) the map is built from the whole batch
queryKeyQueryMapOfBatch(lo, hi) ==
    {<<QueryKey(Query(i)), Query(i)>> : i \in SubBatch(0, size)}

\* doQueries, lines 162-174: the map from key to query of one sub-batch, as its
\* set of entries <<key, query>> (a later query overwrites the entry of an
\* earlier one of the same key, which is an equal query)
queryKeyQueryMap(lo, hi) ==
    {<<QueryKey(Query(i)), Query(i)>> : i \in SubBatch(lo, hi)}

\* query, ok := m[k], line 201
HasKey(m, k) == \E e \in m : e[1] = k
Lookup(m, k) == (CHOOSE e \in m : e[1] = k)[2]

\* the keys a gateway may answer a sub-batch with: those of its first and last
\* query, that of a query of a neighbouring sub-batch, and an unknown one
KeysOffered(lo, hi) ==
    {QueryKey(Query(i)) : i \in {lo, hi - 1} \cap SubBatch(lo, hi)}
        \cup {QueryKey(Query(i)) : i \in {lo - 1, hi} \cap (0..(size - 1))}
        \cup {UnknownKey}

(***************************************************************************)
(* The frame of one doQueries call: where it is (pc: "resolve", "connect", *)
(* "recv", "done"), its sub-batch queries[lo:hi], the shuffled addresses   *)
(* and the position of the loop in them, the row groups received, and what *)
(* the call has done so far: tenant and ring lookups (ringErr: the ring    *)
(* lookup returned an error), the addresses the                            *)
(* pool was asked for (gets), the clients QueryIndex was called on (rpcs), *)
(* how each clientDoQueries call returned and after how many row groups    *)
(* (ends), how each turn of the address loop ended (outs), the row groups  *)
(* received (got), the callback invocations (calls), whether the callback  *)
(* said stop, and the error returned.                                      *)
(***************************************************************************)
IdleJob ==
    [pc |-> "idle", lo |-> 0, hi |-> 0, addrs |-> <<>>, pos |-> 0, nrecv |-> 0,
     tenants |-> 0, rings |-> 0, ringErr |-> FALSE, gets |-> <<>>, rpcs |-> <<>>, ends |-> <<>>,
     outs |-> <<>>, got |-> <<>>, calls |-> <<>>, stopped |-> FALSE,
     err |-> "nil"]

\* (mutant) the error is dropped on the way out
DoneDropsError(rec, e) == [rec EXCEPT !.pc = "done", !.err = "nil"]

\* the frame after doQueries has returned e
Done(rec, e) == [rec EXCEPT !.pc = "done", !.err = e]

(***************************************************************************)
(* ringModeDoQueries, lines 222-259, and clientDoQueries, lines 186-212.   *)
(* Each operator gives the frames the call can be in next.                 *)
(***************************************************************************)
\* the client handed to clientDoQueries: the persistent connection (address 0,
\* line 180) or the pool's client of the address at rec.pos (line 249)
ClientOf(rec) == IF mode = "ring" THEN rec.addrs[rec.pos] ELSE 0

\* (mutant) the loop leaves out the address after a failed one
NextAddrSkips(rec) ==
    IF rec.pos = 0 /\ Len(rec.addrs) > 0
    THEN [rec EXCEPT !.pc = "connect", !.pos = 1]
    ELSE IF rec.pos + 1 < Len(rec.addrs)
    THEN [rec EXCEPT !.pc = "connect", !.pos = rec.pos + 2]
    ELSE [rec EXCEPT !.pc = "done", !.err = "replicationSet clientDoQueries"]

\* (mutant) with no address left the loop waits for one to come back
NextAddrWaits(rec) ==
    IF rec.pos < Len(rec.addrs)
    THEN [rec EXCEPT !.pc = "connect", !.pos = rec.pos + 1]
    ELSE [rec EXCEPT !.pc = "wait"]

\* the loop of line 242 goes on after the address at rec.pos: the pool is asked
\* for the next address, or line 258 when none is left
NextAddr(rec) ==
    IF rec.pos < Len(rec.addrs)
    THEN [rec EXCEPT !.pc = "connect", !.pos = rec.pos + 1]
    ELSE Done(rec, "replicationSet clientDoQueries")

\* (mutant) the loop goes on after a success
RingAfterClientGoesOn(rec, e) ==
    NextAddr([rec EXCEPT !.outs = Append(@, IF e = "nil" THEN "ok" ELSE e)])

\* (mutant) what a failed client handed to the callback is taken back
RingAfterClientWithdraws(rec, e) ==
    IF e = "nil"
    THEN Done([rec EXCEPT !.outs = Append(@, "ok")], "nil")
    ELSE NextAddr([rec EXCEPT !.outs = Append(@, e),
                              !.calls = SelectSeq(@, LAMBDA c : c.addr /= rec.addrs[rec.pos])])

\* (mutant) the loop returns nil after the first client, whatever it returned
RingAfterClientSwallows(rec, e) ==
    Done([rec EXCEPT !.outs = Append(@, IF e = "nil" THEN "ok" ELSE e)], "nil")

\* lines 250-255: clientDoQueries returned e for the address at rec.pos
RingAfterClient(rec, e) ==
    IF e = "nil"
    THEN Done([rec EXCEPT !.outs = Append(@, "ok")], "nil")
    ELSE NextAddr([rec EXCEPT !.outs = Append(@, e)])

\* clientDoQueries returns e to doQueries (line 180) or to the loop (line 250)
ClientReturns(rec, e) ==
    LET r0 == [rec EXCEPT !.ends = Append(@,
                  [addr |-> ClientOf(rec), how |-> e, n |-> rec.nrecv])]
    IN  IF mode = "ring" THEN RingAfterClient(r0, e) ELSE Done(r0, e)

\* lines 188-191: clientDoQueries is entered and opens the stream
ClientStarts(rec) ==
    LET r0 == [rec EXCEPT !.rpcs = Append(@, ClientOf(rec))]
    IN  {[r0 EXCEPT !.pc = "recv"]}
            \cup (IF Faulty THEN {ClientReturns(r0, "query index")} ELSE {})

\* (mutant) the loop goes on after the callback returned false
ReceivedIgnoresStop(rec, k) ==
    LET m == queryKeyQueryMap(rec.lo, rec.hi)
    IN  IF ~HasKey(m, k)
        THEN {ClientReturns(rec, "unexpected QueryKey")}
        ELSE LET r1 == [rec EXCEPT !.calls = Append(@,
                           [addr |-> ClientOf(rec), query |-> Lookup(m, k), n |-> rec.nrecv])]
             IN  {r1, [r1 EXCEPT !.stopped = TRUE]}

\* (mutant) the callback's false is returned as an error
ReceivedStopFails(rec, k) ==
    LET m == queryKeyQueryMap(rec.lo, rec.hi)
    IN  IF ~HasKey(m, k)
        THEN {ClientReturns(rec, "unexpected QueryKey")}
        ELSE LET r1 == [rec EXCEPT !.calls = Append(@,
                           [addr |-> ClientOf(rec), query |-> Lookup(m, k), n |-> rec.nrecv])]
             IN  {r1, ClientReturns([r1 EXCEPT !.stopped = TRUE], "recv")}

\* (mutant) the first row group of a dispatch is not handed to the callback
ReceivedDropsFirst(rec, k) ==
    LET m == queryKeyQueryMap(rec.lo, rec.hi)
    IN  IF ~HasKey(m, k)
        THEN {ClientReturns(rec, "unexpected QueryKey")}
        ELSE IF rec.calls = <<>> /\ rec.nrecv = 1
        THEN {rec}
        ELSE LET r1 == [rec EXCEPT !.calls = Append(@,
                           [addr |-> ClientOf(rec), query |-> Lookup(m, k), n |-> rec.nrecv])]
             IN  {r1, ClientReturns([r1 EXCEPT !.stopped = TRUE], "nil")}

\* lines 201-208: a row group with key k has been received
Received(rec, k) ==
    LET m == queryKeyQueryMap(rec.lo, rec.hi)
    IN  IF ~HasKey(m, k)
        THEN {ClientReturns(rec, "unexpected QueryKey")}
        ELSE LET r1 == [rec EXCEPT !.calls = Append(@,
                           [addr |-> ClientOf(rec), query |-> Lookup(m, k), n |-> rec.nrecv])]
             IN  {r1, ClientReturns([r1 EXCEPT !.stopped = TRUE], "nil")}

\* lines 193-211: one turn of the receive loop
RecvFrames(rec) ==
    {ClientReturns(rec, "nil")}
        \cup (IF Faulty THEN {ClientReturns(rec, "recv")} ELSE {})
        \cup (IF rec.nrecv < RecvCap
              THEN UNION {Received([rec EXCEPT !.nrecv = @ + 1,
                                               !.got = Append(@,
                                                  [addr |-> ClientOf(rec), key |-> k])],
                                   k) :
                             k \in KeysOffered(rec.lo, rec.hi)}
              ELSE {})

\* lines 243-250: the pool is asked for the client of the address at rec.pos
ConnectFrames(rec) ==
    LET r0 == [rec EXCEPT !.gets = Append(@, rec.addrs[rec.pos])]
    IN  ClientStarts(r0)
            \cup (IF Faulty
                  THEN {NextAddr([r0 EXCEPT !.outs = Append(@, "get client")])}
                  ELSE {})

\* the orders rand.Shuffle can leave k addresses in
Shuffles(k) ==
    {s \in [1..k -> 1..k] : \A a, b \in 1..k : s[a] = s[b] => a = b}

\* (mutant) the errors of the tenant and ring lookups are not looked at
ResolveFramesUnchecked(rec) ==
    LET r0 == [rec EXCEPT !.tenants = @ + 1]
        r1 == [r0 EXCEPT !.rings = @ + 1]
    IN  (IF Faulty
         THEN {NextAddr([r1 EXCEPT !.ringErr = TRUE, !.addrs = s, !.pos = 0]) :
                  s \in Shuffles(1)}
         ELSE {})
            \cup {NextAddr([r1 EXCEPT !.addrs = s, !.pos = 0]) :
                     s \in UNION {Shuffles(k) : k \in 0..ReplicaCap}}

\* lines 223-242: the tenant, the ring lookup, the shuffle and the loop's entry
ResolveFrames(rec) ==
    LET r0 == [rec EXCEPT !.tenants = @ + 1]
        r1 == [r0 EXCEPT !.rings = @ + 1]
    IN  IF ~tenantOK
        THEN {Done(r0, "get tenant ID")}
        ELSE (IF Faulty THEN {Done([r1 EXCEPT !.ringErr = TRUE], "get ring")} ELSE {})
                 \cup {NextAddr([r1 EXCEPT !.addrs = s, !.pos = 0]) :
                          s \in UNION {Shuffles(k) : k \in 0..ReplicaCap}}

\* (mutant) the mode is not looked at: every dispatch goes through the ring
doQueriesThroughRing(lo, hi) ==
    {[IdleJob EXCEPT !.lo = lo, !.hi = hi, !.pc = "resolve"]}

\* doQueries, lines 161-181, entered with queries[lo:hi]: the map is built and
\* the mode decides who is called
doQueries(lo, hi) ==
    LET r0 == [IdleJob EXCEPT !.lo = lo, !.hi = hi]
    IN  IF mode = "ring" THEN {[r0 EXCEPT !.pc = "resolve"]} ELSE ClientStarts(r0)

(***************************************************************************)
(* QueryPages, lines 147-159, and concurrency.ForEachJob.                  *)
(***************************************************************************)
\* (mutant) a batch of exactly the cap is split
DirectBelowCap(n) == n < maxQueriesPerGrpc

\* line 148: the batch goes to doQueries as it is
Direct(n) == n <= maxQueriesPerGrpc

\* (mutant) the remainder gets no job
JobsCountNoRemainder(n) == n \div maxQueriesPerGrpc

\* lines 152-155
JobsCount(n) ==
    LET q == n \div maxQueriesPerGrpc
    IN  IF n % maxQueriesPerGrpc /= 0 THEN q + 1 ELSE q

\* line 157: the bounds of queries[idx*max : min((idx+1)*max, len(queries))]
SliceLo(idx) == idx * maxQueriesPerGrpc
SliceHi(idx, n) == Min((idx + 1) * maxQueriesPerGrpc, n)

\* ForEachJob starts min(concurrency, jobs) workers
WorkerCount(jobs) == Min(maxConcurrentGrpcCalls, jobs)

\* the fan-out before ForEachJob is called: jobs to run, the next index the
\* workers hand out, workers at the head of their loop, workers that have
\* returned, whether the context is cancelled, the error the join keeps and
\* the job it came from
NoPool ==
    [jobs |-> 0, nextIdx |-> 0, free |-> 0, exited |-> 0, cancelled |-> FALSE,
     firstErr |-> "nil", firstFailed |-> -1]

\* the job function of a worker returned e for job j: an error makes the worker
\* return, which cancels the context and is kept by the join if it is the
\* first; after nil the worker is back at the head of its loop
WorkerGets(p, j, e) ==
    IF e = "nil"
    THEN [p EXCEPT !.free = @ + 1]
    ELSE [p EXCEPT !.exited = @ + 1,
                   !.cancelled = TRUE,
                   !.firstErr = IF p.firstErr = "nil" THEN e ELSE p.firstErr,
                   !.firstFailed = IF p.firstErr = "nil" THEN j ELSE p.firstFailed]

\* the fan-out once the frame of job j is r
PoolAfter(p, j, r) == IF r.pc = "done" THEN WorkerGets(p, j, r.err) ELSE p

\* (mutant) the join's error is dropped
JoinResultDropped == "nil"

\* what QueryPages returns from the fan-out, line 156: the join's error
JoinResult == pool.firstErr

QueryPages ==
    /\ qp = "call"
    /\ IF Direct(size)
       THEN \E r \in doQueries(0, size) :
               /\ job' = [j \in {0} |-> r]
               /\ qp' = IF r.pc = "done" THEN "returned" ELSE "direct"
               /\ result' = r.err
               /\ UNCHANGED pool
       ELSE /\ qp' = "fanout"
            /\ pool' = [NoPool EXCEPT !.jobs = JobsCount(size),
                                      !.free = WorkerCount(JobsCount(size))]
            /\ job' = [j \in 0..(JobsCount(size) - 1) |-> IdleJob]
            /\ UNCHANGED result
    /\ UNCHANGED cfgVars

\* a worker at the head of its loop takes the next index and runs the job function
WorkerTake ==
    /\ qp = "fanout"
    /\ pool.free > 0
    /\ ~pool.cancelled
    /\ pool.nextIdx < pool.jobs
    /\ LET idx == pool.nextIdx
       IN  \E r \in doQueries(SliceLo(idx), SliceHi(idx, size)) :
              /\ job' = [job EXCEPT ![idx] = r]
              /\ pool' = PoolAfter([pool EXCEPT !.nextIdx = @ + 1, !.free = @ - 1],
                                   idx, r)
    /\ UNCHANGED <<cfgVars, qp, result>>

\* a worker at the head of its loop returns: the context is cancelled, or no
\* index is left
WorkerExit ==
    /\ qp = "fanout"
    /\ pool.free > 0
    /\ pool.cancelled \/ pool.nextIdx >= pool.jobs
    /\ pool' = [pool EXCEPT !.free = @ - 1, !.exited = @ + 1]
    /\ UNCHANGED <<cfgVars, qp, result, job>>

\* the join: every worker has returned, and QueryPages returns
Join ==
    /\ qp = "fanout"
    /\ pool.exited = WorkerCount(pool.jobs)
    /\ qp' = "returned"
    /\ result' = JoinResult
    /\ UNCHANGED <<cfgVars, pool, job>>

\* (mutant) QueryPages does not wait for doQueries to return
StepReturnsEarly(j, r) ==
    /\ job' = [job EXCEPT ![j] = r]
    /\ IF qp = "direct"
       THEN /\ qp' = "returned"
            /\ result' = r.err
            /\ UNCHANGED pool
       ELSE /\ pool' = PoolAfter(pool, j, r)
            /\ UNCHANGED <<qp, result>>
    /\ UNCHANGED cfgVars

\* the doQueries call of job j goes on to frame r; when it returns, its caller
\* has the error: QueryPages itself (line 149) or the worker that ran it
Step(j, r) ==
    /\ job' = [job EXCEPT ![j] = r]
    /\ IF qp = "direct"
       THEN /\ qp' = IF r.pc = "done" THEN "returned" ELSE "direct"
            /\ result' = r.err
            /\ UNCHANGED pool
       ELSE /\ pool' = PoolAfter(pool, j, r)
            /\ UNCHANGED <<qp, result>>
    /\ UNCHANGED cfgVars

Resolve(j) ==
    /\ job[j].pc = "resolve"
    /\ \E r \in ResolveFrames(job[j]) : Step(j, r)

Connect(j) ==
    /\ job[j].pc = "connect"
    /\ \E r \in ConnectFrames(job[j]) : Step(j, r)

Recv(j) ==
    /\ job[j].pc = "recv"
    /\ \E r \in RecvFrames(job[j]) : Step(j, r)

(***************************************************************************)
(* The specification.                                                      *)
(***************************************************************************)
\* no iterator is looked at
NoIter == [Rows |-> <<>>, i |-> -1]
NoRead == [field |-> "none", got |-> "none"]

\* before the call is made again there is no earlier call to compare with
NoFirst == [job |-> <<>>, result |-> "nil"]

Init ==
    /\ mode \in {"simple", "ring"}
    /\ size \in BatchSizes
    /\ same = (size = 2)
    /\ tenantOK \in BOOLEAN
    /\ mode = "simple" => tenantOK
    /\ (size > MaxDetailJobs * maxQueriesPerGrpc) => mode = "simple"
    /\ qp = "call"
    /\ result = "nil"
    /\ pool = NoPool
    /\ job = <<>>
    /\ run = 1
    /\ first = NoFirst
    /\ iter = NoIter
    /\ nexts = <<>>
    /\ read = NoRead

Next ==
    \/ QueryPages
    \/ WorkerTake
    \/ WorkerExit
    \/ Join
    \/ \E j \in DOMAIN job : Resolve(j)
    \/ \E j \in DOMAIN job : Connect(j)
    \/ \E j \in DOMAIN job : Recv(j)

Spec == Init /\ [][Next]_vars

\* the indexes a job can have
JobIds == 0..(JobsCount(1001) - 1)

\* fair scheduling: the caller's goroutine and every worker go on when they
\* can; a stream that is read gets a row group, its end or an error
FairSpec ==
    /\ Spec
    /\ WF_vars(QueryPages)
    /\ WF_vars(WorkerTake)
    /\ WF_vars(WorkerExit)
    /\ WF_vars(Join)
    /\ \A j \in JobIds : WF_vars(j \in DOMAIN job /\ Resolve(j))
    /\ \A j \in JobIds : WF_vars(j \in DOMAIN job /\ Connect(j))
    /\ \A j \in JobIds : WF_vars(j \in DOMAIN job /\ Recv(j))

(***************************************************************************)
(* What the claims speak of.                                               *)
(***************************************************************************)
Jobs == DOMAIN job
Started(j) == job[j].pc /= "idle"
Finished(j) == job[j].pc = "done"
Running(j) == Started(j) /\ ~Finished(j)
Returned == qp = "returned"
Split == qp = "fanout" \/ (Returned /\ pool.jobs > 0)

\* how often x occurs in the sequence s
Count(s, x) == Cardinality({i \in DOMAIN s : s[i] = x})
\* the first n elements of s
Prefix(s, n) == SubSeq(s, 1, n)
\* whether the turn of the address loop that ended as o failed
Failed(o) == o /= "ok"

\* the least number of sub-batches of at most 100 queries that hold n queries
CeilJobs(n) == CHOOSE k \in 0..n : k * 100 >= n /\ (k - 1) * 100 < n

(***************************************************************************)
(* C1: a batch of n > 100 queries is split into ceil(n/100) jobs, job i    *)
(* being given queries[i*100 : min((i+1)*100, n)]: no sub-batch handed to  *)
(* doQueries holds more than 100 queries, the jobs are taken in index      *)
(* order, each once, and once all are taken every index of the batch is in *)
(* exactly one sub-batch; n = 100k gives k jobs of 100 queries, and        *)
(* n = 100k + r gives k + 1 jobs, the last of r queries.                   *)
(***************************************************************************)
C1_Split ==
    /\ \A j \in Jobs : Started(j) => job[j].hi - job[j].lo <= 100
    /\ Split =>
          LET k == CeilJobs(size)
          IN  /\ size > 100
              /\ pool.jobs = k
              /\ Jobs = 0..(k - 1)
              /\ size % 100 = 0 => k * 100 = size
              /\ size % 100 /= 0 => (k - 1) * 100 + (size % 100) = size
              /\ {j \in Jobs : Started(j)} = 0..(pool.nextIdx - 1)
              /\ \A j \in Jobs : Started(j) =>
                    /\ job[j].lo = 100 * j
                    /\ job[j].hi = IF j = k - 1 THEN size ELSE 100 * j + 100
                    /\ job[j].hi - job[j].lo >= 1
                    /\ (j = k - 1 /\ size % 100 /= 0)
                          => job[j].hi - job[j].lo = size % 100
                    /\ j > 0 => job[j].lo = job[j - 1].hi
              /\ (Returned /\ pool.nextIdx = k) =>
                    \A i \in 0..(size - 1) :
                       Cardinality({j \in Jobs : job[j].lo <= i /\ i < job[j].hi}) = 1

\* 250 queries: three jobs of 100, 100 and 50 queries
C1_Witness ==
    /\ size = 250
    /\ Split
    /\ pool.nextIdx = 3
    /\ <<job[0].hi - job[0].lo, job[1].hi - job[1].lo, job[2].hi - job[2].lo>>
          = <<100, 100, 50>>

C3_Exhaustion ==
    mode = "ring" =>
       \A j \in Jobs :
          ( /\ Finished(j)
            /\ job[j].rings = 1
            /\ job[j].err /= "get ring"
            /\ \A i \in DOMAIN job[j].outs : Failed(job[j].outs[i]) )
          => /\ job[j].err = "replicationSet clientDoQueries"
             /\ Len(job[j].outs) = Len(job[j].addrs)
             /\ job[j].gets = job[j].addrs
             /\ \A a \in 1..Len(job[j].addrs) :
                   Count(job[j].gets, a) = 1 /\ Count(job[j].rpcs, a) <= 1

\* three addresses fail in three ways
C3_Witness ==
    /\ mode = "ring"
    /\ \E j \in Jobs :
          /\ Finished(j)
          /\ job[j].err = "replicationSet clientDoQueries"
          /\ Len(job[j].addrs) = 3
          /\ job[j].outs = <<"get client", "query index", "recv">>

\* whether key k is the key of a query of the sub-batch of job j
KnownKey(j, k) == \E i \in job[j].lo..(job[j].hi - 1) : QueryKey(Query(i)) = k

(***************************************************************************)
(* C4: in simple and in ring mode, a row group whose key is not in the     *)
(* dispatch's key map is fatal: the dispatch returns the mismatch error at *)
(* once, no further row group is processed for the sub-batch, and          *)
(* QueryPages returns an error, the mismatch error itself when the batch   *)
(* is one sub-batch.                                                       *)
(***************************************************************************)
C4_MismatchIsFatal ==
    \A j \in Jobs : \A i \in DOMAIN job[j].got :
       ~KnownKey(j, job[j].got[i].key) =>
          /\ Finished(j)
          /\ job[j].err = "unexpected QueryKey"
          /\ Len(job[j].got) = i
          /\ \A c \in DOMAIN job[j].calls : job[j].calls[c].n /= i
          /\ Returned => result /= "nil"
          /\ (Returned /\ ~Split) => result = "unexpected QueryKey"

C6_Original ==
    (Returned /\ result /= "nil") => \A j \in Jobs : job[j].calls = <<>>

(***************************************************************************)
(* C6 as amended: QueryPages returns nil or one error, which is the error  *)
(* a sub-batch dispatch returned; an RPC call that fails in simple mode,   *)
(* and a resolved replica set of which no address succeeds in ring mode,   *)
(* make the dispatch return an error.  Row groups handed to the callback   *)
(* before a failure stay handed over; none is handed over by an RPC call   *)
(* after that call has ended.                                              *)
(***************************************************************************)
C6_ErrorAfterDelivery ==
    /\ result /= "nil" => Returned
    /\ (Returned /\ result /= "nil") =>
          \E j \in Jobs : Finished(j) /\ job[j].err = result
    /\ (Returned /\ ~Split) => Finished(0) /\ result = job[0].err
    /\ \A j \in Jobs :
          /\ \A e \in DOMAIN job[j].ends :
                /\ (mode = "simple" /\ job[j].ends[e].how /= "nil") =>
                      Finished(j) /\ job[j].err = job[j].ends[e].how
                /\ \A c \in DOMAIN job[j].calls :
                      job[j].calls[c].addr = job[j].ends[e].addr =>
                         job[j].calls[c].n <= job[j].ends[e].n
          /\ ( /\ mode = "ring"
               /\ Finished(j)
               /\ \A o \in DOMAIN job[j].outs : Failed(job[j].outs[o]) )
             => job[j].err /= "nil"

\* simple mode: two row groups reach the callback, then the stream fails
C6_Witness ==
    /\ mode = "simple"
    /\ ~Split
    /\ Returned
    /\ result = "recv"
    /\ Len(job[0].calls) = 2

(***************************************************************************)
(* C7 as stated: a batch of at most 100 queries is served by exactly one   *)
(* QueryIndex call, in simple and in ring mode.                            *)
(***************************************************************************)
C7_Original ==
    (size <= 100 /\ Returned) => Len(job[0].rpcs) = 1

(***************************************************************************)
(* C7 as amended: a batch of at most 100 queries goes to one doQueries     *)
(* call, without a fan-out.  In simple mode that call makes exactly one    *)
(* QueryIndex call.  In ring mode it makes at most one QueryIndex call per *)
(* resolved address, on addresses the pool gave a client for, and none     *)
(* after a QueryIndex call has completed: one if the first address         *)
(* succeeds, none if the tenant, the ring or every client is missing.      *)
(***************************************************************************)
C7_DirectDispatch ==
    (size <= 100 /\ qp /= "call") =>
       /\ Jobs = {0}
       /\ pool = NoPool
       /\ Started(0)
       /\ job[0].lo = 0
       /\ job[0].hi = size
       /\ mode = "simple" => job[0].rpcs = <<0>>
       /\ mode = "ring" =>
             /\ Len(job[0].rpcs) <= Len(job[0].addrs)
             /\ \A a \in 1..Len(job[0].addrs) : Count(job[0].rpcs, a) <= 1
             /\ \A i \in DOMAIN job[0].rpcs :
                   \E g \in DOMAIN job[0].gets : job[0].gets[g] = job[0].rpcs[i]
             /\ Len(job[0].ends) <= Len(job[0].rpcs)
             /\ \A i \in DOMAIN job[0].ends :
                   /\ job[0].ends[i].addr = job[0].rpcs[i]
                   /\ i < Len(job[0].rpcs) => job[0].ends[i].how /= "nil"
             /\ (job[0].rings = 0 \/ job[0].err = "get ring") => job[0].rpcs = <<>>
             /\ (Len(job[0].outs) >= 1 /\ job[0].outs[1] = "ok") =>
                   Len(job[0].rpcs) = 1

\* ring mode, 100 queries: two QueryIndex calls before QueryPages returns
C7_Witness ==
    /\ mode = "ring"
    /\ size = 100
    /\ Returned
    /\ Len(job[0].rpcs) = 2

(***************************************************************************)
(* C8: the fan-out is an all-or-error join.  When QueryPages returns from  *)
(* a split batch no job is still running; if any job's dispatch returned   *)
(* an error QueryPages returns an error, the one of the job that failed    *)
(* first, whatever the other jobs delivered; it returns nil only if every  *)
(* job was dispatched and returned nil.                                    *)
(***************************************************************************)
C8_AllOrError ==
    (Split /\ Returned) =>
       /\ \A j \in Jobs : ~Running(j)
       /\ (\E j \in Jobs : Finished(j) /\ job[j].err /= "nil") => result /= "nil"
       /\ result /= "nil" =>
             /\ pool.firstFailed \in Jobs
             /\ Finished(pool.firstFailed)
             /\ result = job[pool.firstFailed].err
       /\ result = "nil" =>
             /\ Jobs = 0..(CeilJobs(size) - 1)
             /\ \A j \in Jobs : Finished(j) /\ job[j].err = "nil"

\* a split batch returns an error although another job ended well after handing
\* a row group to the callback
C8_Witness ==
    /\ Split
    /\ Returned
    /\ result /= "nil"
    /\ \E j \in Jobs :
          /\ Finished(j)
          /\ job[j].err = "nil"
          /\ job[j].calls /= <<>>

(***************************************************************************)
(* C9: at any moment at most 10 sub-batch dispatches are in flight,        *)
(* however many jobs the batch is split into; a job past the tenth starts  *)
(* only once enough earlier dispatches have returned.                      *)
(***************************************************************************)
C9_BoundedConcurrency ==
    /\ Cardinality({j \in Jobs : Running(j)}) <= 10
    /\ \A j \in Jobs :
          (j >= 10 /\ Started(j)) =>
             Cardinality({i \in 0..(j - 1) : Finished(i)}) >= j - 9

\* eleven jobs: ten dispatches in flight and the eleventh not started
C9_Witness ==
    /\ size = 1001
    /\ Cardinality(Jobs) = 11
    /\ Cardinality({j \in Jobs : Running(j)}) = 10
    /\ ~Started(10)

(***************************************************************************)
(* C10: in simple mode every dispatch makes exactly one QueryIndex call,   *)
(* on the configured connection: no tenant is read, the ring is not        *)
(* consulted, the pool is not asked for a client, and when that call fails *)
(* (at its opening or while reading) the dispatch returns that error with  *)
(* no other endpoint tried; QueryPages returns it, or for a split batch    *)
(* the error of the job that failed first.                                 *)
(***************************************************************************)
C10_SimpleMode ==
    mode = "simple" =>
       /\ \A j \in Jobs :
             Started(j) =>
                /\ job[j].tenants = 0
                /\ job[j].rings = 0
                /\ job[j].addrs = <<>>
                /\ job[j].gets = <<>>
                /\ job[j].outs = <<>>
                /\ job[j].rpcs = <<0>>
                /\ Len(job[j].ends) <= 1
                /\ Finished(j) <=> Len(job[j].ends) = 1
                /\ \A e \in DOMAIN job[j].ends :
                      /\ job[j].ends[e].addr = 0
                      /\ job[j].err = job[j].ends[e].how
       /\ (Returned /\ ~Split) => result = job[0].err
       /\ (Returned /\ Split) =>
             /\ (\E j \in Jobs : Finished(j) /\ job[j].err /= "nil") => result /= "nil"
             /\ result /= "nil" =>
                   \E j \in Jobs : Finished(j) /\ result = job[j].err

\* simple mode: the one QueryIndex call fails at its opening and QueryPages
\* returns that error
C10_Witness ==
    /\ mode = "simple"
    /\ ~Split
    /\ Returned
    /\ result = "query index"
    /\ job[0].rpcs = <<0>>
    /\ job[0].ends = <<[addr |-> 0, how |-> "query index", n |-> 0]>>

\* the dispatch of job j has contacted no address and invoked no callback
Quiet(j) ==
    /\ job[j].addrs = <<>>
    /\ job[j].gets = <<>>
    /\ job[j].rpcs = <<>>
    /\ job[j].outs = <<>>
    /\ job[j].got = <<>>
    /\ job[j].calls = <<>>

(***************************************************************************)
(* C11: in ring mode a dispatch whose tenant lookup or ring lookup fails   *)
(* returns that error at once: each lookup is made once, no client is      *)
(* asked of the pool, no QueryIndex is called, the callback is not         *)
(* invoked, and QueryPages returns an error (that one, for one sub-batch). *)
(***************************************************************************)
C11_ResolutionFatal ==
    mode = "ring" =>
       \A j \in Jobs :
          /\ (job[j].tenants >= 1 /\ ~tenantOK) =>
                /\ Finished(j)
                /\ job[j].err = "get tenant ID"
                /\ job[j].tenants = 1
                /\ job[j].rings = 0
                /\ Quiet(j)
          /\ job[j].ringErr =>
                /\ Finished(j)
                /\ job[j].err = "get ring"
                /\ job[j].tenants = 1
                /\ job[j].rings = 1
                /\ Quiet(j)
          /\ ((job[j].tenants >= 1 /\ ~tenantOK) \/ job[j].ringErr) =>
                /\ Returned => result /= "nil"
                /\ (Returned /\ ~Split) => result = job[j].err

\* ring mode, one sub-batch: the ring lookup fails and QueryPages returns that
\* error
C11_Witness ==
    /\ mode = "ring"
    /\ tenantOK
    /\ ~Split
    /\ Returned
    /\ result = "get ring"
    /\ job[0].ringErr
    /\ job[0].rings = 1

\* ring mode, a split batch without a tenant: the first job fails on the tenant
\* lookup and QueryPages returns that error
C11_WitnessTenant ==
    /\ mode = "ring"
    /\ ~tenantOK
    /\ Split
    /\ Returned
    /\ result = "get tenant ID"

(***************************************************************************)
(* C12: a QueryPages call with an empty batch does no work (no tenant      *)
(* lookup, no ring lookup, no client asked of the pool, no QueryIndex      *)
(* call, no callback invocation) and returns nil.                          *)
(***************************************************************************)
C12_EmptyBatchNoWork ==
    (size = 0 /\ qp /= "call") =>
       /\ Returned => result = "nil"
       /\ \A j \in Jobs :
             /\ job[j].tenants = 0
             /\ job[j].rings = 0
             /\ job[j].gets = <<>>
             /\ job[j].rpcs = <<>>
             /\ job[j].calls = <<>>

(***************************************************************************)
(* The same call made twice.  After QueryPages has returned it is called   *)
(* again with the same queries, and both calls run against one unchanged   *)
(* environment: every gateway of a sub-batch's replica set holds the same  *)
(* row groups in the same order, a gateway, the pool and the ring answer   *)
(* the second call the way they answered the first, and the callback gives *)
(* the same answer for the same row group.  Which order the shuffle leaves *)
(* the addresses in and how the jobs interleave is free in both calls.     *)
(***************************************************************************)
IsPrefix(s, t) == Len(s) <= Len(t) /\ \A i \in DOMAIN s : s[i] = t[i]

\* the keys of the row groups the gateway at address a sent to the dispatch rec
KeysFrom(rec, a) ==
    LET sel == SelectSeq(rec.got, LAMBDA g : g.addr = a)
    IN  [i \in 1..Len(sel) |-> sel[i].key]

\* how the stream of address a ended in the dispatch rec: still "open", by
\* "eof", by the callback's "stop", or by an error
EndOf(rec, a) ==
    LET e == {i \in DOMAIN rec.ends : rec.ends[i].addr = a}
    IN  IF e = {} THEN "open"
        ELSE LET i == CHOOSE x \in e : TRUE
             IN  IF rec.ends[i].how /= "nil" THEN rec.ends[i].how
                 ELSE IF rec.stopped /\ i = Len(rec.ends) THEN "stop"
                 ELSE "eof"

\* what the dispatch rec has seen of the gateways it called
Streams(rec) ==
    {[addr |-> rec.rpcs[i], keys |-> KeysFrom(rec, rec.rpcs[i]),
      end |-> EndOf(rec, rec.rpcs[i])] : i \in DOMAIN rec.rpcs}

\* the addresses the pool gave no client for, in the dispatch rec
Refused(rec) ==
    {rec.gets[i] : i \in {x \in DOMAIN rec.outs : rec.outs[x] = "get client"}}

\* two streams of one sub-batch can come from gateways holding the same row
\* groups, with a callback that answers the same for the same row group
SameContent(o1, o2) ==
    /\ IsPrefix(o1.keys, o2.keys) \/ IsPrefix(o2.keys, o1.keys)
    /\ o1.end \in {"eof", "stop"} =>
          /\ Len(o2.keys) <= Len(o1.keys)
          /\ o2.end \in {"eof", "stop"} => o2.end = o1.end
          /\ (o1.end = "stop" /\ Len(o2.keys) = Len(o1.keys)) => o2.end = "stop"

\* the stream now of a gateway is the stream was of the same gateway in the
\* call before, as far as it has got
SameGateway(now, was) ==
    /\ now.end /= "open" => now = was
    /\ now.end = "open" => was.end /= "query index"

\* the dispatch now of a sub-batch and the dispatch was of the same sub-batch
\* in the call before ran against the same environment
SameAnswers(now, was) ==
    /\ \A o1, o2 \in Streams(now) \cup Streams(was) :
          SameContent(o1, o2) /\ SameContent(o2, o1)
    /\ \A o1 \in Streams(now) : \A o2 \in Streams(was) :
          o1.addr = o2.addr => SameGateway(o1, o2)
    /\ Refused(now) \cap {o.addr : o \in Streams(was)} = {}
    /\ Refused(was) \cap {o.addr : o \in Streams(now)} = {}
    /\ (now.rings = 1 /\ was.rings = 1) =>
          /\ now.ringErr = was.ringErr
          /\ now.pc /= "resolve" => Len(now.addrs) = Len(was.addrs)

SameEnvironment ==
    \A j \in DOMAIN job :
       SameAnswers(job[j], IF j \in DOMAIN first.job THEN first.job[j] ELSE IdleJob)

\* the call has returned and is made again
Rerun ==
    /\ qp = "returned"
    /\ run = 1
    /\ run' = 2
    /\ first' = [job |-> job, result |-> result]
    /\ qp' = "call"
    /\ result' = "nil"
    /\ pool' = NoPool
    /\ job' = <<>>
    /\ UNCHANGED <<mode, size, same, tenantOK, iterVars>>

\* the batch sizes the call is made twice with
TwiceSizes == {2, 101}

InitTwice == Init /\ size \in TwiceSizes /\ tenantOK

\* the bounds of the call made twice
WithinTwice ==
    \A j \in DOMAIN job :
       /\ Len(job[j].addrs) <= MaxTwiceReplicas
       /\ job[j].nrecv <= MaxTwiceRecv

NextTwice ==
    \/ QueryPages /\ SameEnvironment'
    \/ WorkerTake /\ SameEnvironment'
    \/ WorkerExit
    \/ Join
    \/ \E j \in DOMAIN job : Resolve(j) /\ WithinTwice' /\ SameEnvironment'
    \/ \E j \in DOMAIN job : Connect(j) /\ SameEnvironment'
    \/ \E j \in DOMAIN job : Recv(j) /\ WithinTwice' /\ SameEnvironment'
    \/ Rerun

SpecTwice == InitTwice /\ [][NextTwice]_vars

\* the row groups the dispatches in js handed to the callback: the sub-batch,
\* the position of the row group in its gateway's stream, and the query
Delivered(js) ==
    UNION {{<<j,
              Cardinality({i \in 1..js[j].calls[c].n :
                              js[j].got[i].addr = js[j].calls[c].addr}),
              js[j].calls[c].query>> : c \in DOMAIN js[j].calls} : j \in DOMAIN js}

QueriesOf(j) == {Query(i) : i \in SubBatch(job[j].lo, job[j].hi)}

(***************************************************************************)
(* C14 as stated: the key map of every sub-batch handed to doQueries has   *)
(* as many entries as the sub-batch has queries, and every key looked up   *)
(* with success resolves to a query of that sub-batch.                     *)
(***************************************************************************)
C14_Original ==
    \A j \in Jobs :
       Started(j) =>
          /\ Cardinality(queryKeyQueryMap(job[j].lo, job[j].hi)) = job[j].hi - job[j].lo
          /\ \A c \in DOMAIN job[j].calls :
                \E i \in SubBatch(job[j].lo, job[j].hi) : Query(i) = job[j].calls[c].query

(***************************************************************************)
(* C14 as amended: the key map of every sub-batch handed to doQueries has  *)
(* one entry per distinct query of the sub-batch: every query's key is in  *)
(* it and resolves to that query, no key is in it twice, and it has at     *)
(* most as many entries as the sub-batch has queries, as many when no      *)
(* query is in the sub-batch twice.  Every row group handed to the         *)
(* callback comes with the query its key resolves to, a query of that      *)
(* sub-batch.                                                              *)
(***************************************************************************)
C14_MapOfSubBatch ==
    /\ \A j \in Jobs :
          \* the map of the dispatch entered last
          (Started(j) /\ (Split => j = pool.nextIdx - 1)) =>
             LET m == queryKeyQueryMap(job[j].lo, job[j].hi)
                 n == job[j].hi - job[j].lo
                 qs == QueriesOf(j)
             IN  /\ Cardinality(m) = Cardinality(qs)
                 /\ Cardinality(m) <= n
                 /\ Cardinality(qs) = n => Cardinality(m) = n
                 /\ Cardinality({e[1] : e \in m}) = Cardinality(m)
                 /\ {e[2] : e \in m} = qs
                 /\ \A e \in m : e[1] = QueryKey(e[2])
    /\ \A j \in Jobs : \A c \in DOMAIN job[j].calls :
          /\ \E i \in SubBatch(job[j].lo, job[j].hi) : Query(i) = job[j].calls[c].query
          /\ QueryKey(job[j].calls[c].query) = job[j].got[job[j].calls[c].n].key

\* a sub-batch of two equal queries: its map has one entry, and a row group is
\* handed to the callback with that query
C14_Witness ==
    /\ size = 2
    /\ same
    /\ qp /= "call"
    /\ Started(0)
    /\ Cardinality(queryKeyQueryMap(job[0].lo, job[0].hi)) = 1
    /\ job[0].hi - job[0].lo = 2
    /\ Len(job[0].calls) >= 1

\* a split batch: the second sub-batch is answered with the key of a query of
\* the first, which its map does not hold
C14_WitnessNeighbour ==
    /\ size = 101
    /\ qp /= "call"
    /\ Started(1)
    /\ Len(job[1].got) = 1
    /\ job[1].got[1].key = QueryKey(Query(99))
    /\ job[1].calls = <<>>

(***************************************************************************)
(* C15: within one stream the callback is invoked once per row group       *)
(* received, in the order of arrival: the invocations of a dispatch follow *)
(* the row groups it received, each with the query of the row group's key  *)
(* and the client it came from, none twice, none left out but a row group  *)
(* of an unknown key, which ends its stream.  A stream that ends with no   *)
(* error makes the dispatch return nil.                                    *)
(***************************************************************************)
C15_DeliveryInOrder ==
    \A j \in Jobs :
       /\ \A c \in DOMAIN job[j].calls :
             /\ job[j].calls[c].n \in DOMAIN job[j].got
             /\ job[j].got[job[j].calls[c].n].addr = job[j].calls[c].addr
             /\ job[j].got[job[j].calls[c].n].key = QueryKey(job[j].calls[c].query)
             /\ \A d \in DOMAIN job[j].calls :
                   c < d => job[j].calls[c].n < job[j].calls[d].n
       /\ \A i \in DOMAIN job[j].got :
             IF KnownKey(j, job[j].got[i].key)
             THEN \E c \in DOMAIN job[j].calls : job[j].calls[c].n = i
             ELSE \A i2 \in DOMAIN job[j].got :
                     i2 > i => job[j].got[i2].addr /= job[j].got[i].addr
       /\ Len(job[j].got) = job[j].nrecv
       /\ \A e \in DOMAIN job[j].ends :
             job[j].ends[e].how = "nil" =>
                /\ e = Len(job[j].ends)
                /\ Finished(j)
                /\ job[j].err = "nil"
                /\ (Returned /\ ~Split) => result = "nil"

\* ring mode, 100 queries, three addresses: the pool has no client for the
\* first, the second streams the row groups of the first and the last query,
\* handed over in that order, and the third is not asked for
C15_Witness ==
    /\ mode = "ring"
    /\ size = 100
    /\ Returned
    /\ result = "nil"
    /\ Len(job[0].addrs) = 3
    /\ job[0].outs = <<"get client", "ok">>
    /\ Len(job[0].gets) = 2
    /\ ~job[0].stopped
    /\ job[0].calls = <<[addr |-> job[0].addrs[2], query |-> 0, n |-> 1],
                        [addr |-> job[0].addrs[2], query |-> 99, n |-> 2]>>

(***************************************************************************)
(* readBatch and grpcIter, lines 269-296: the iterator the callback gets   *)
(* over the rows of one row group.                                         *)
(***************************************************************************)
\* the rows a gateway may send: a range value and a value each
Row == [RangeValue : {"r1", "r2"}, Value : {"v1", "v2"}]

\* the row groups a gateway may send
RowGroups == UNION {[1..n -> Row] : n \in 0..MaxRows}

\* readBatch.Iterator, lines 273-278
Iterator(rows) == [Rows |-> rows, i |-> -1]

\* (mutant) Next compares with <=
grpcIterNextOffByOne(b) == b.i <= Len(b.Rows)

\* what grpcIter.Next returns once it has moved the cursor, line 287
grpcIterNext(b) == b.i < Len(b.Rows)

\* whether b.Rows[b.i] is a row; Go panics when the index is out of range
InRange(b) == 0 <= b.i /\ b.i < Len(b.Rows)

\* grpcIter.RangeValue, lines 290-292, and grpcIter.Value, lines 294-296
RangeValue(b) == IF InRange(b) THEN b.Rows[b.i + 1].RangeValue ELSE "panic"
Value(b) == IF InRange(b) THEN b.Rows[b.i + 1].Value ELSE "panic"

\* a call of Next, lines 285-288
IterNext ==
    /\ read.got /= "panic"
    /\ Len(nexts) < MaxNextCalls
    /\ iter' = [iter EXCEPT !.i = @ + 1]
    /\ nexts' = Append(nexts, grpcIterNext(iter'))
    /\ read' = NoRead
    /\ UNCHANGED <<mode, size, same, tenantOK, qp, result, pool, job, run, first>>

\* a call of RangeValue
IterRangeValue ==
    /\ read.got /= "panic"
    /\ read' = [field |-> "RangeValue", got |-> RangeValue(iter)]
    /\ UNCHANGED <<mode, size, same, tenantOK, qp, result, pool, job, run, first,
                   iter, nexts>>

\* a call of Value
IterValue ==
    /\ read.got /= "panic"
    /\ read' = [field |-> "Value", got |-> Value(iter)]
    /\ UNCHANGED <<mode, size, same, tenantOK, qp, result, pool, job, run, first,
                   iter, nexts>>

\* an iterator fresh from readBatch.Iterator over some row group
InitIter ==
    /\ mode = "simple"
    /\ size = 0
    /\ same = FALSE
    /\ tenantOK = TRUE
    /\ qp = "returned"
    /\ result = "nil"
    /\ pool = NoPool
    /\ job = <<>>
    /\ run = 1
    /\ first = NoFirst
    /\ iter \in {Iterator(rows) : rows \in RowGroups}
    /\ nexts = <<>>
    /\ read = NoRead

NextIter == IterNext \/ IterRangeValue \/ IterValue

SpecIter == InitIter /\ [][NextIter]_vars

(***************************************************************************)
(* C16: an iterator over a row group of n rows starts before the first     *)
(* row; the first n calls of Next return true and leave the cursor on rows *)
(* 0..n-1 in order, where RangeValue and Value return the fields of that   *)
(* row; every later call of Next returns false, and the cursor is not on a *)
(* row again.                                                              *)
(***************************************************************************)
C16_ForwardCursor ==
    LET n == Len(iter.Rows)
        k == Len(nexts)
    IN  /\ k = 0 => iter.i = -1
        /\ iter.i = k - 1
        /\ \A c \in DOMAIN nexts : nexts[c] = (c <= n)
        /\ (k >= 1 /\ k <= n) =>
              /\ nexts[k]
              /\ read.field = "RangeValue" => read.got = iter.Rows[k].RangeValue
              /\ read.field = "Value" => read.got = iter.Rows[k].Value
        /\ k > n => ~nexts[k] /\ ~(0 <= iter.i /\ iter.i < n)

\* two rows that differ: after the second Next the cursor is on the second
\* row, whose value is read
C16_Witness ==
    /\ Len(iter.Rows) = 2
    /\ iter.Rows[1] /= iter.Rows[2]
    /\ nexts = <<TRUE, TRUE>>
    /\ read = [field |-> "Value", got |-> iter.Rows[2].Value]

\* two rows: the third and the fourth Next return false
C16_WitnessExhausted ==
    /\ Len(iter.Rows) = 2
    /\ nexts = <<TRUE, TRUE, FALSE, FALSE>>

(***************************************************************************)
(* C17: what a dispatch has handed to the callback stays handed over       *)
(* whatever happens next (a stream failing, the loop going on to the next  *)
(* address, the dispatch returning), and every address is asked for the    *)
(* same sub-batch.  So in ring mode one dispatch can hand over row groups  *)
(* of the same query from more than one replica, and a dispatch that       *)
(* returns nil can have handed over row groups of a replica that failed    *)
(* (the witness).                                                          *)
(***************************************************************************)
C17_DeliveredStays ==
    [][\A j \in DOMAIN job :
          /\ j \in DOMAIN job'
          /\ IsPrefix(job[j].calls, job'[j].calls)
          /\ IsPrefix(job[j].got, job'[j].got)
          /\ Started(j) => (job'[j].lo = job[j].lo /\ job'[j].hi = job[j].hi)]_vars

\* ring mode: the first replica hands over a row group and then fails, the
\* second hands over a row group of the same query and ends well, and the
\* dispatch returns nil with both row groups handed over
C17_Witness ==
    /\ mode = "ring"
    /\ Returned
    /\ ~Split
    /\ result = "nil"
    /\ job[0].outs = <<"recv", "ok">>
    /\ Len(job[0].calls) = 2
    /\ job[0].calls[1].addr /= job[0].calls[2].addr
    /\ job[0].calls[1].query = job[0].calls[2].query
    /\ job[0].calls[1].addr = job[0].ends[1].addr
    /\ job[0].ends[1].how = "recv"

(***************************************************************************)
(* C18: QueryPages returns only when every dispatch it started has         *)
(* returned: at the return no dispatch is running, with nil or with an     *)
(* error, and after it no dispatch moves and the callback is not invoked.  *)
(***************************************************************************)
C18_NoCallbackAfterReturn ==
    [][/\ Returned' => (\A j \in Jobs : ~Running(j))'
       /\ Returned => job' = job]_vars

\* a split batch returns an error: every job that was started has returned,
\* one of them after handing a row group to the callback
C18_Witness ==
    /\ Split
    /\ Returned
    /\ result /= "nil"
    /\ Cardinality({j \in Jobs : Finished(j)}) >= 2
    /\ \A j \in Jobs : ~Running(j)
    /\ \E j \in Jobs : job[j].calls /= <<>>

(***************************************************************************)
(* C19: the callback's false stops the stream of its own dispatch only.    *)
(* In a split batch the step in which a dispatch is stopped leaves every   *)
(* other dispatch as it is, does not cancel the fan-out and gives the      *)
(* worker back to take the next job; and when every job's dispatch has     *)
(* returned nil, stopped or not, QueryPages returns nil.                   *)
(***************************************************************************)
C19_StopIsLocal ==
    [][/\ \A j \in DOMAIN job :
             (j \in DOMAIN job' /\ job'[j].stopped /\ ~job[j].stopped) =>
                /\ \A k \in DOMAIN job : k /= j => job'[k] = job[k]
                /\ job'[j].pc = "done"
                /\ job'[j].err = "nil"
                /\ qp = "fanout" =>
                      /\ qp' = "fanout"
                      /\ pool'.cancelled = pool.cancelled
                      /\ pool'.firstErr = pool.firstErr
                      /\ pool'.exited = pool.exited
                      /\ pool'.nextIdx = pool.nextIdx
                      /\ pool'.free = pool.free + 1
       /\ (Returned' /\ \A j \in DOMAIN job' :
                           job'[j].pc = "done" /\ job'[j].err = "nil")
             => result' = "nil"]_vars

\* a split batch: the first dispatch has been stopped by the callback, the
\* fan-out is not cancelled and the second dispatch is still reading its
\* stream, with a row group to come
C19_Witness ==
    /\ qp = "fanout"
    /\ job[0].stopped
    /\ Finished(0)
    /\ ~pool.cancelled
    /\ job[1].pc = "recv"
    /\ job[1].calls = <<>>
    /\ job[1].nrecv < RecvCap

\* a split batch returns nil: the first dispatch was stopped by the callback
\* and the second has handed a row group to the callback and read on to the
\* end of its stream
C19_WitnessSuccess ==
    /\ Split
    /\ Returned
    /\ result = "nil"
    /\ job[0].stopped
    /\ ~job[1].stopped
    /\ job[1].calls /= <<>>

(***************************************************************************)
(* C20: under fair scheduling, with every stream ending, every QueryPages  *)
(* call returns.  On the way the address loop of a dispatch asks the       *)
(* pool for the addresses of a permutation of the resolved set, in order,  *)
(* each at most once: at most N attempts for N addresses, and none for an  *)
(* empty set, which gives the exhaustion error; and at the return every    *)
(* job of the fan-out has been run to its end or was never started.        *)
(***************************************************************************)
C20_Terminates ==
    /\ <>Returned
    /\ [](\A j \in Jobs :
             /\ Len(job[j].gets) <= Len(job[j].addrs)
             /\ job[j].gets = Prefix(job[j].addrs, Len(job[j].gets))
             /\ {job[j].addrs[a] : a \in DOMAIN job[j].addrs} = 1..Len(job[j].addrs)
             /\ ( /\ Finished(j)
                  /\ job[j].rings = 1
                  /\ ~job[j].ringErr
                  /\ job[j].addrs = <<>> )
                => (job[j].err = "replicationSet clientDoQueries" /\ Quiet(j)))
    /\ [](Returned => \A j \in Jobs : Finished(j) \/ ~Started(j))

\* a split batch has returned with one job run to its end and another never
\* started
C20_Witness ==
    /\ Split
    /\ Returned
    /\ \E j \in Jobs : Finished(j)
    /\ \E j \in Jobs : ~Started(j)

\* ring mode: the ring resolves no address and the call returns the
\* exhaustion error without an attempt
C20_WitnessEmptySet ==
    /\ mode = "ring"
    /\ ~Split
    /\ Returned
    /\ job[0].rings = 1
    /\ ~job[0].ringErr
    /\ job[0].addrs = <<>>
    /\ job[0].gets = <<>>
    /\ result = "replicationSet clientDoQueries"

====
